---- MODULE Spec2Model ----
(***************************************************************************)
(* Gateway supervisor, reverse proxy and administration layer of           *)
(* src/server.js, as a state machine over the Node.js event loop.           *)
(*                                                                         *)
(* One action is one run-to-completion segment of a handler: the code      *)
(* between two points where the handler yields to the event loop (an       *)
(* await on a timer, on process or network I/O).  An await on an already   *)
(* settled promise resumes in the microtask queue, before any other        *)
(* handler can run, and is therefore part of the same action.              *)
(*                                                                         *)
(* Processes are numbered in spawn order; 0 is JavaScript's null.  The     *)
(* synchronous filesystem calls (mkdirSync, writeFileSync, rmSync) are     *)
(* taken to succeed, so every start attempt spawns exactly one process     *)
(* and attempt k is the attempt that spawned process k.                    *)
(*                                                                         *)
(* Time is kept only as far as the timers order events: the sleep(750)     *)
(* timers fire in the order they were set, and the 20 s readiness window   *)
(* of an attempt cannot end before a sleep(750) that was running 750 ms    *)
(* before its end.                                                         *)
(***************************************************************************)
EXTENDS Integers, Sequences, FiniteSets, TLC

\* Bounds of the model: handlers in progress at once, processes spawned.
MaxReq == 2
MaxProcs == 2

Reqs == 1..MaxReq
Procs == 1..MaxProcs

\* null, for a process handle or a pending start.
NoProc == 0

VARIABLES
  configured,        \* isConfigured(): the config artifact exists
  underData,         \* STATE_DIR and WORKSPACE_DIR are both under /data
  gatewayProc,       \* handle of the backend process, NoProc for null
  gatewayStarting,   \* pending start attempt, NoProc for null
  attempt,           \* position of the pending attempt's async body
  lastGatewayError,  \* last failure description, or NoError
  lastGatewayExit,   \* process of the last exit record, or NoProc
  lastDoctorAt,      \* "null", "recent" (under 5 minutes ago) or "old"
  proc,              \* the OS processes spawned so far
  nprocs,            \* number of processes spawned so far
  lastOutcome,       \* history: how the latest settled attempt ended
  earlyOk,           \* history: a call got success while the latest attempt was pending
  sleepQ,            \* handlers inside sleep(750), in timer order
  reqs,              \* the request handlers in progress
  out,               \* the handlers that completed in the last step
  run,               \* the runCmd() call of a console command
  cev,               \* what the console handler did in the last step
  env,               \* SETUP_PASSWORD, OPENCLAW_CONFIG_PATH, OPENCLAW_GATEWAY_TOKEN
  fs,                \* the config artifact, its backups, the token file
  exported,          \* history: the last archive that export made
  job,               \* readBodyBuffer and the extraction of an import
  dev,               \* what an administrative handler did in the last step
  tokens             \* history: the tokens that resolveGatewayToken returned

vars == << configured, underData, gatewayProc, gatewayStarting, attempt,
           lastGatewayError, lastGatewayExit, lastDoctorAt, proc, nprocs,
           lastOutcome, earlyOk, sleepQ, reqs, out, run, cev,
           env, fs, exported, job, dev, tokens >>

\* The variables of the gateway supervisor and of the console commands.
gatewayVars == << configured, underData, gatewayProc, gatewayStarting, attempt,
                  lastGatewayError, lastGatewayExit, lastDoctorAt, proc, nprocs,
                  lastOutcome, earlyOk, sleepQ, reqs, out >>
consoleVars == << run, cev >>
dataVars == << env, fs, exported, job, dev, tokens >>

NoError == [kind |-> "null", proc |-> NoProc]
NoAttempt == [pc |-> "none", late |-> FALSE, preLate |-> 0]
\* The attempt as its async body starts the readiness wait.
NewAttempt == [pc |-> "waiting", late |-> FALSE, preLate |-> 0]
Unborn == [st |-> "unborn", sig |-> FALSE, listening |-> FALSE, probed |-> FALSE]
Gone == [st |-> "gone", sig |-> FALSE, listening |-> FALSE, probed |-> FALSE]

\* A text is a sequence of pieces; NoCmd stands where no console command
\* is involved.
NoCmd == << "n/a" >>

\* A free handler slot.
Idle == [kind |-> "none", pc |-> "idle", h0 |-> NoProc, egr |-> "none", att |-> NoProc,
         cmd |-> NoCmd]

\* The supervisor's variables as one value, for the operators below.
SupState ==
  [gatewayProc |-> gatewayProc, gatewayStarting |-> gatewayStarting,
   attempt |-> attempt, lastGatewayError |-> lastGatewayError,
   proc |-> proc, nprocs |-> nprocs, lastOutcome |-> lastOutcome,
   earlyOk |-> earlyOk]

ApplySup(s) ==
  /\ gatewayProc' = s.gatewayProc
  /\ gatewayStarting' = s.gatewayStarting
  /\ attempt' = s.attempt
  /\ lastGatewayError' = s.lastGatewayError
  /\ proc' = s.proc
  /\ nprocs' = s.nprocs
  /\ lastOutcome' = s.lastOutcome
  /\ earlyOk' = s.earlyOk

SupUnchanged ==
  UNCHANGED << gatewayProc, gatewayStarting, attempt, lastGatewayError, proc,
               nprocs, lastOutcome, earlyOk >>

\* The exit code of a process that a signal killed is null; a promise that
\* has not resolved has no code.
NullCode == -1
NoCode == -2

\* No runCmd() call in progress.
NoRun == [pc |-> "idle", st |-> "none", code |-> NoCode, sigs |-> << >>,
          timer |-> "unset", killTimer |-> "unset", out |-> << >>, chunks |-> 0,
          result |-> NoCode]

\* A step in which the console handler neither spawned nor responded.
NoEvent == [cmd |-> NoCmd, spawned |-> FALSE, sub |-> << >>, param |-> << >>,
            lines |-> 0, status |-> 0, error |-> "none", code |-> NoCode,
            raw |-> << >>, output |-> << >>]

\* Nothing has run yet.
Quiet ==
  /\ gatewayProc = NoProc
  /\ gatewayStarting = NoProc
  /\ attempt = NoAttempt
  /\ lastGatewayError = NoError
  /\ lastGatewayExit = NoProc
  /\ lastDoctorAt = "null"
  /\ proc = [p \in Procs |-> Unborn]
  /\ nprocs = 0
  /\ lastOutcome = "none"
  /\ earlyOk = FALSE
  /\ sleepQ = << >>
  /\ reqs = [r \in Reqs |-> Idle]
  /\ out = {}
  /\ run = NoRun
  /\ cev = NoEvent

\* The files as a fresh volume has them, with SETUP_PASSWORD set.  The
\* supervisor follows the config artifact by its existence only
\* (configured); its content is followed where the file handlers are.
FreshData ==
  /\ env = [setupPassword |-> << "p", ":", "w" >>, configOverride |-> FALSE,
            gatewayToken |-> << >>]
  /\ fs = [config |-> "absent", backups |-> {}, token |-> << "ENOENT" >>]
  /\ exported = [made |-> FALSE, archive |-> {}, config |-> "absent"]
  /\ job = [pc |-> "idle", total |-> 0, buffered |-> 0]
  /\ dev = [kind |-> "none", route |-> "none", header |-> << >>, status |-> "none",
            archive |-> {}, passed |-> {}, wrote |-> {}, total |-> 0,
            buffered |-> 0]
  /\ tokens = << >>

Init ==
  /\ configured \in BOOLEAN
  /\ underData \in BOOLEAN
  /\ Quiet
  /\ FreshData

(***************************************************************************)
(* The supervisor's functions.                                             *)
(***************************************************************************)

\* startGateway(): spawn unless a handle is held.  A spawn that fails emits
\* "error" from process.nextTick, before any other handler runs, so the
\* error listener's two assignments belong to the same segment.
startGateway(s, spawnOk) ==
  IF s.gatewayProc # NoProc THEN s
  ELSE LET p == s.nprocs + 1 IN
    [s EXCEPT
       !.nprocs = p,
       !.proc[p] = IF spawnOk THEN [Unborn EXCEPT !.st = "alive"] ELSE Gone,
       !.gatewayProc = IF spawnOk THEN p ELSE NoProc,
       !.lastGatewayError =
          IF spawnOk THEN @ ELSE [kind |-> "spawn error", proc |-> p]]

\* ensureGatewayRunning() without the single-flight test: every call that
\* finds no handle starts an attempt of its own.
ensureNoSingleFlight(s, conf, spawnOk) ==
  IF ~conf THEN [s |-> s, egr |-> "notconf"]
  ELSE IF s.gatewayProc # NoProc
  THEN [s |-> [s EXCEPT !.earlyOk = @ \/ s.gatewayStarting # NoProc],
        egr |-> "held"]
  ELSE LET s1 == startGateway([s EXCEPT !.lastGatewayError = NoError], spawnOk) IN
      [s |-> [s1 EXCEPT !.gatewayStarting = s1.nprocs,
                        !.attempt = NewAttempt,
                        !.earlyOk = FALSE],
       egr |-> "spawn"]

\* ensureGatewayRunning() that attaches only while the process of the
\* pending attempt lives, and starts over once it is gone.
ensureRespawnsWhenDead(s, conf, spawnOk) ==
  IF ~conf THEN [s |-> s, egr |-> "notconf"]
  ELSE IF s.gatewayProc # NoProc
  THEN [s |-> [s EXCEPT !.earlyOk = @ \/ s.gatewayStarting # NoProc],
        egr |-> "held"]
  ELSE IF s.gatewayStarting = NoProc \/ s.proc[s.gatewayStarting].st = "gone" THEN
    LET s1 == startGateway([s EXCEPT !.lastGatewayError = NoError], spawnOk) IN
      [s |-> [s1 EXCEPT !.gatewayStarting = s1.nprocs,
                        !.attempt = NewAttempt,
                        !.earlyOk = FALSE],
       egr |-> "spawn"]
  ELSE [s |-> s, egr |-> "attach"]

\* ensureGatewayRunning() without its isConfigured() test.
ensureIgnoresConfig(s, conf, spawnOk) ==
  IF s.gatewayProc # NoProc
  THEN [s |-> [s EXCEPT !.earlyOk = @ \/ s.gatewayStarting # NoProc],
        egr |-> "held"]
  ELSE IF s.gatewayStarting = NoProc THEN
    LET s1 == startGateway([s EXCEPT !.lastGatewayError = NoError], spawnOk) IN
      [s |-> [s1 EXCEPT !.gatewayStarting = s1.nprocs,
                        !.attempt = NewAttempt,
                        !.earlyOk = FALSE],
       egr |-> "spawn"]
  ELSE [s |-> s, egr |-> "attach"]

\* ensureGatewayRunning() whose attempt leaves lastGatewayError as it was.
ensureKeepsLastError(s, conf, spawnOk) ==
  IF ~conf THEN [s |-> s, egr |-> "notconf"]
  ELSE IF s.gatewayProc # NoProc
  THEN [s |-> [s EXCEPT !.earlyOk = @ \/ s.gatewayStarting # NoProc],
        egr |-> "held"]
  ELSE IF s.gatewayStarting = NoProc THEN
    LET s1 == startGateway(s, spawnOk) IN
      [s |-> [s1 EXCEPT !.gatewayStarting = s1.nprocs,
                        !.attempt = NewAttempt,
                        !.earlyOk = FALSE],
       egr |-> "spawn"]
  ELSE [s |-> s, egr |-> "attach"]

\* ensureGatewayRunning() up to its first suspension.  egr tells which of
\* its four paths was taken.
ensureGatewayRunning(s, conf, spawnOk) ==
  IF ~conf THEN [s |-> s, egr |-> "notconf"]
  ELSE IF s.gatewayProc # NoProc
  THEN [s |-> [s EXCEPT !.earlyOk = @ \/ s.gatewayStarting # NoProc],
        egr |-> "held"]
  ELSE IF s.gatewayStarting = NoProc THEN
    LET s1 == startGateway([s EXCEPT !.lastGatewayError = NoError], spawnOk) IN
      [s |-> [s1 EXCEPT !.gatewayStarting = s1.nprocs,
                        !.attempt = NewAttempt,
                        !.earlyOk = FALSE],
       egr |-> "spawn"]
  ELSE [s |-> s, egr |-> "attach"]

\* A kill that reaches no process.
killNobody(s) == s

\* gatewayProc.kill("SIGTERM") on the held handle.
killHeld(s) ==
  IF s.gatewayProc = NoProc THEN s
  ELSE [s EXCEPT !.proc[s.gatewayProc].sig = TRUE]

\* The grace period ends and the handle is left as it is.
keepHandle(s) == s

\* gatewayProc = null after the grace period.
clearHandle(s) == [s EXCEPT !.gatewayProc = NoProc]

\* One timer of sleep(750) has fired: it no longer holds back the
\* readiness timeout of the pending attempt.
timerFired(s) ==
  [s EXCEPT !.attempt.preLate = IF @ > 0 THEN @ - 1 ELSE 0]

(***************************************************************************)
(* What a handler does once ensureGatewayRunning() has settled for it.     *)
(***************************************************************************)

\* req.headers.authorization of an inbound request: undefined, the empty
\* string, or a value of the client's own.
AuthValues == {"absent", "empty", "own"}

\* The header values to consider for a handler of kind k: only the proxy
\* and upgrade handlers look at the header.
AuthOf(k) == IF k \in {"proxy", "upgrade"} THEN AuthValues ELSE {"absent"}

\* OPENCLAW_GATEWAY_TOKEN is never empty: resolveGatewayToken() returns the
\* environment's token, the stored one, or a fresh random one.
GatewayTokenSet == TRUE

\* An attachGatewayAuthHeader that sets the bearer token on every request.
attachOverwrites(hdr) ==
  IF GatewayTokenSet THEN "bearer" ELSE hdr

\* attachGatewayAuthHeader(req): the Authorization header after the call.
\* !req.headers.authorization holds of undefined and of the empty string.
attachGatewayAuthHeader(hdr) ==
  IF hdr \in {"absent", "empty"} /\ GatewayTokenSet THEN "bearer" ELSE hdr

\* A forwarding step that leaves the request's headers as they came.
ForwardUntouched(o, hdr) ==
  IF o.resp \in {"forwarded", "piped"}
  THEN [o EXCEPT !.auth = hdr, !.sent = hdr]
  ELSE o

\* The tail of the proxy and upgrade handlers, for the response record o of
\* a request that came with Authorization header hdr: attachGatewayAuthHeader
\* and proxy.web / proxy.ws when the request is to be forwarded.
Forward(o, hdr) ==
  IF o.resp \in {"forwarded", "piped"}
  THEN [o EXCEPT !.auth = hdr, !.sent = attachGatewayAuthHeader(hdr)]
  ELSE o

UsesRestart(k) == k \in {"restart", "rawwrite", "import"}

\* The response of a handler that never called ensureGatewayRunning().
Answer(rec, resp) ==
  [kind |-> rec.kind, resp |-> resp, er |-> "none", egr |-> rec.egr,
   att |-> rec.att, h0 |-> rec.h0, endProc |-> -1, fwd |-> "no",
   auth |-> "n/a", sent |-> "n/a", cmd |-> rec.cmd]

\* A continuation of the proxy handler that has no catch block: the
\* request is forwarded whatever ensureGatewayRunning() did.
CompleteWithoutCatch(rec, result, s) ==
  LET gp == s.gatewayProc IN
  [kind |-> rec.kind,
   resp |-> CASE rec.kind = "proxy" -> "forwarded"
              [] rec.kind = "upgrade" -> IF result = "fail" THEN "destroyed" ELSE "piped"
              [] rec.kind = "start" -> IF result = "ok" THEN "ok"
                                       ELSE IF result = "fail" THEN "500" ELSE "notok"
              [] OTHER -> IF result = "fail" THEN "500" ELSE "ok",
   er |-> result, egr |-> rec.egr, att |-> rec.att, h0 |-> rec.h0,
   endProc |-> IF UsesRestart(rec.kind) THEN gp ELSE -1,
   fwd |-> IF rec.kind = "proxy" \/ (rec.kind = "upgrade" /\ result # "fail")
           THEN (IF gp # NoProc /\ s.proc[gp].probed THEN "ready" ELSE "notready")
           ELSE "no",
   auth |-> "n/a", sent |-> "n/a", cmd |-> rec.cmd]

\* The response of a handler for which ensureGatewayRunning() settled with
\* result while the handle was gp: the proxy forwards unless the call threw.
Complete(rec, result, s) ==
  LET gp == s.gatewayProc IN
  [kind |-> rec.kind,
   resp |-> CASE rec.kind = "proxy" -> IF result = "fail" THEN "503" ELSE "forwarded"
              [] rec.kind = "upgrade" -> IF result = "fail" THEN "destroyed" ELSE "piped"
              [] rec.kind = "start" -> IF result = "ok" THEN "ok"
                                       ELSE IF result = "fail" THEN "500" ELSE "notok"
              [] OTHER -> IF result = "fail" THEN "500" ELSE "ok",
   er |-> result, egr |-> rec.egr, att |-> rec.att, h0 |-> rec.h0,
   endProc |-> IF UsesRestart(rec.kind) THEN gp ELSE -1,
   fwd |-> IF rec.kind \in {"proxy", "upgrade"} /\ result # "fail"
           THEN (IF gp # NoProc /\ s.proc[gp].probed THEN "ready" ELSE "notready")
           ELSE "no",
   auth |-> "n/a", sent |-> "n/a", cmd |-> rec.cmd]

\* The spawn counter is capped by the bound.
CanEnsure(s, conf) ==
  (conf /\ s.gatewayProc = NoProc /\ s.gatewayStarting = NoProc) => s.nprocs < MaxProcs

\* The outcomes of childProcess.spawn to consider for a call from state s:
\* success or failure where the call spawns, and nothing to choose where
\* it does not.
SpawnOutcomes(s, conf) ==
  IF conf /\ s.gatewayProc = NoProc /\ s.gatewayStarting = NoProc
  THEN BOOLEAN ELSE {TRUE}

\* Handler r, with record rec, calls ensureGatewayRunning() from supervisor
\* state s: it suspends on gatewayStarting or completes at once.
CallEnsure(r, rec, s, conf) ==
  /\ CanEnsure(s, conf)
  /\ \E spawnOk \in SpawnOutcomes(s, conf) :
       LET e == ensureGatewayRunning(s, conf, spawnOk)
           rec1 == [rec EXCEPT !.egr = e.egr, !.att = e.s.gatewayStarting] IN
         /\ ApplySup(e.s)
         /\ IF e.egr \in {"spawn", "attach"}
            THEN /\ reqs' = [reqs EXCEPT ![r] = [rec1 EXCEPT !.pc = "await"]]
                 /\ out' = {}
            ELSE /\ reqs' = [reqs EXCEPT ![r] = Idle]
                 /\ \E hdr \in AuthOf(rec.kind) :
                      out' = {Forward(Complete(rec1, IF e.egr = "held" THEN "ok"
                                                     ELSE "notconf", e.s), hdr)}

\* Handler r calls restartGateway() from supervisor state s: either it
\* signals the held process and sleeps, or it goes on to
\* ensureGatewayRunning() at once.
CallRestart(r, rec, s, conf) ==
  IF s.gatewayProc # NoProc
  THEN /\ ApplySup(killHeld(s))
       /\ reqs' = [reqs EXCEPT ![r] = [rec EXCEPT !.pc = "restartSleep",
                                                  !.h0 = s.gatewayProc]]
       /\ sleepQ' = Append(sleepQ, r)
       /\ out' = {}
  ELSE /\ CallEnsure(r, rec, s, conf)
       /\ sleepQ' = sleepQ

\* Handler r runs the stop sequence on a held handle: signal and sleep.
CallStop(r, rec, s) ==
  /\ ApplySup(killHeld(s))
  /\ reqs' = [reqs EXCEPT ![r] = [rec EXCEPT !.pc = "stopSleep"]]
  /\ sleepQ' = Append(sleepQ, r)
  /\ out' = {}

\* Handler r responds without touching the supervisor.
Respond(r, rec, resp) ==
  /\ reqs' = [reqs EXCEPT ![r] = Idle]
  /\ out' = {Answer(rec, resp)}

(***************************************************************************)
(* Requests.  A request takes the lowest free handler slot.                *)
(***************************************************************************)

HasFree == \E r \in Reqs : reqs[r].pc = "idle"
Free == CHOOSE r \in Reqs : reqs[r].pc = "idle" /\ \A q \in 1..(r - 1) : reqs[q].pc # "idle"
New(k) == [Idle EXCEPT !.kind = k, !.pc = "run"]

\* A catch-all handler without the redirect: it goes to
\* ensureGatewayRunning() whether or not the system is configured.
ProxyNoRedirect ==
  /\ HasFree
  /\ CallEnsure(Free, New("proxy"), SupState, configured)
  /\ UNCHANGED << configured, underData, lastGatewayExit, lastDoctorAt, sleepQ >>
  /\ UNCHANGED << consoleVars, dataVars >>

\* app.use(async (req, res) => ...): the catch-all proxy handler.  setup
\* is req.path.startsWith("/setup"), which the handler reads only while
\* the system is unconfigured.
ProxyRequest ==
  /\ HasFree
  /\ \E setup \in (IF configured THEN {FALSE} ELSE BOOLEAN) :
       IF ~configured /\ ~setup
       THEN Respond(Free, New("proxy"), "redirect") /\ SupUnchanged
       ELSE IF configured
       THEN CallEnsure(Free, New("proxy"), SupState, configured)
       ELSE /\ reqs' = reqs
            /\ \E hdr \in AuthValues :
                 out' = {Forward([Answer(New("proxy"), "forwarded")
                                    EXCEPT !.fwd = "unconf"], hdr)}
            /\ SupUnchanged
  /\ UNCHANGED << configured, underData, lastGatewayExit, lastDoctorAt, sleepQ >>
  /\ UNCHANGED << consoleVars, dataVars >>

\* server.on("upgrade", ...): a WebSocket upgrade.
UpgradeRequest ==
  /\ HasFree
  /\ IF ~configured
     THEN Respond(Free, New("upgrade"), "destroyed") /\ SupUnchanged
     ELSE CallEnsure(Free, New("upgrade"), SupState, configured)
  /\ UNCHANGED << configured, underData, lastGatewayExit, lastDoctorAt, sleepQ >>
  /\ UNCHANGED << consoleVars, dataVars >>

(***************************************************************************)
(* POST /setup/api/console/run.  payload.cmd is a text, written as the     *)
(* sequence of its pieces: a word or a blank.                              *)
(***************************************************************************)

Blank == " "

RECURSIVE trimStart(_)
trimStart(s) == IF s # << >> /\ Head(s) = Blank THEN trimStart(Tail(s)) ELSE s

RECURSIVE trimEnd(_)
trimEnd(s) ==
  IF s # << >> /\ s[Len(s)] = Blank THEN trimEnd(SubSeq(s, 1, Len(s) - 1)) ELSE s

\* String.prototype.trim.
trim(s) == trimEnd(trimStart(s))

ALLOWED_CONSOLE_COMMANDS ==
  { << "gateway.restart" >>, << "gateway.stop" >>, << "gateway.start" >>,
    << "openclaw.version" >>, << "openclaw.status" >>, << "openclaw.health" >>,
    << "openclaw.doctor" >>, << "openclaw.logs.tail" >>, << "openclaw.config.get" >>,
    << "openclaw.devices.list" >>, << "openclaw.devices.approve" >>,
    << "openclaw.plugins.list" >>, << "openclaw.plugins.enable" >> }

\* The values of payload.cmd sent to the gateway commands: the three
\* names, one of them followed by an option, one inside another word's
\* line, a name that is not a console command, and no command at all.
GatewayCmds ==
  { << "gateway.restart" >>, << "gateway.stop" >>, << "gateway.start" >>,
    << "gateway.stop", Blank, "--force" >>, << "sh", Blank, "gateway.start" >>,
    << "sh" >>, << >> }

\* A handler that takes the first word of the command for its name.
branchByFirstWord(raw) ==
  LET cmd == trim(raw) IN
  IF cmd # << >> /\ << Head(cmd) >> \in ALLOWED_CONSOLE_COMMANDS
  THEN << Head(cmd) >> ELSE << "notallowed" >>

\* The branch of the handler that payload.cmd selects: the command itself
\* when the allowlist has it.
consoleBranch(raw) ==
  LET cmd == trim(raw) IN
  IF cmd \notin ALLOWED_CONSOLE_COMMANDS THEN << "notallowed" >> ELSE cmd

\* The values of payload.cmd that select branch b.
Selecting(b) == { raw \in GatewayCmds : consoleBranch(raw) = b }
RejectedCmds == Selecting(<< "notallowed" >>)
StartCmds == Selecting(<< "gateway.start" >>)
RestartCmds == Selecting(<< "gateway.restart" >>)
StopCmds == Selecting(<< "gateway.stop" >>)

\* const cmd = String(payload.cmd || "").trim()
CmdOf == [raw \in GatewayCmds |-> trim(raw)]

\* The console handler's record for branch k of command raw.
Console(k, raw) == [New(k) EXCEPT !.cmd = CmdOf[raw]]

\* A command the allowlist does not have: 400 "Command not allowed".  The
\* response does not repeat the command.
ConsoleRejected ==
  /\ HasFree
  /\ RejectedCmds # {}
  /\ Respond(Free, New("console"), "notallowed")
  /\ SupUnchanged
  /\ UNCHANGED << configured, underData, lastGatewayExit, lastDoctorAt, sleepQ >>
  /\ UNCHANGED << consoleVars, dataVars >>

\* Console command gateway.start.
ConsoleStart ==
  /\ HasFree
  /\ \E raw \in StartCmds :
       /\ CallEnsure(Free, Console("start", raw), SupState, configured)
  /\ UNCHANGED << configured, underData, lastGatewayExit, lastDoctorAt, sleepQ >>
  /\ UNCHANGED << consoleVars, dataVars >>

\* Console command gateway.restart.
ConsoleRestart ==
  /\ HasFree
  /\ \E raw \in RestartCmds :
       /\ CallRestart(Free, Console("restart", raw), SupState, configured)
  /\ UNCHANGED << configured, underData, lastGatewayExit, lastDoctorAt >>
  /\ UNCHANGED << consoleVars, dataVars >>

\* Console command gateway.stop.
ConsoleStop ==
  /\ HasFree
  /\ \E raw \in StopCmds :
       /\ IF gatewayProc # NoProc
          THEN CallStop(Free, Console("stop", raw), SupState)
          ELSE Respond(Free, Console("stop", raw), "ok") /\ SupUnchanged /\ UNCHANGED sleepQ
  /\ UNCHANGED << configured, underData, lastGatewayExit, lastDoctorAt >>
  /\ UNCHANGED << consoleVars, dataVars >>

\* POST /setup/api/reset.
ResetRequest ==
  /\ HasFree
  /\ IF gatewayProc # NoProc
     THEN CallStop(Free, New("reset"), SupState) /\ UNCHANGED configured
     ELSE /\ Respond(Free, New("reset"), "ok")
          /\ configured' = FALSE
          /\ SupUnchanged
          /\ UNCHANGED sleepQ
  /\ UNCHANGED << underData, lastGatewayExit, lastDoctorAt >>
  /\ UNCHANGED << consoleVars, dataVars >>

\* POST /setup/api/config/raw.
RawConfigWrite ==
  /\ HasFree
  /\ \E tooLarge \in BOOLEAN :
       IF tooLarge
       THEN /\ Respond(Free, New("rawwrite"), "413")
            /\ SupUnchanged
            /\ UNCHANGED << configured, sleepQ >>
       ELSE /\ configured' = TRUE
            /\ CallRestart(Free, New("rawwrite"), SupState, TRUE)
  /\ UNCHANGED << underData, lastGatewayExit, lastDoctorAt >>
  /\ UNCHANGED << consoleVars, dataVars >>

\* An import handler without the test of the two directories.
ImportAnywhere ==
  /\ HasFree
  /\ IF gatewayProc # NoProc
     THEN CallStop(Free, [New("import") EXCEPT !.h0 = gatewayProc], SupState)
     ELSE /\ reqs' = [reqs EXCEPT ![Free] = [New("import") EXCEPT !.pc = "body"]]
          /\ out' = {}
          /\ SupUnchanged
          /\ UNCHANGED sleepQ
  /\ UNCHANGED << configured, underData, lastGatewayExit, lastDoctorAt >>
  /\ UNCHANGED << consoleVars, dataVars >>

\* POST /setup/import, up to its first suspension.
ImportRequest ==
  /\ HasFree
  /\ IF ~underData
     THEN Respond(Free, New("import"), "400") /\ SupUnchanged /\ UNCHANGED sleepQ
     ELSE IF gatewayProc # NoProc
     THEN CallStop(Free, [New("import") EXCEPT !.h0 = gatewayProc], SupState)
     ELSE /\ reqs' = [reqs EXCEPT ![Free] = [New("import") EXCEPT !.pc = "body"]]
          /\ out' = {}
          /\ SupUnchanged
          /\ UNCHANGED sleepQ
  /\ UNCHANGED << configured, underData, lastGatewayExit, lastDoctorAt >>
  /\ UNCHANGED << consoleVars, dataVars >>

\* The oldest sleep(750) timer fires and its handler goes on.
Wake ==
  /\ sleepQ # << >>
  /\ LET r == Head(sleepQ)
         s == clearHandle(timerFired(SupState)) IN
       /\ sleepQ' = Tail(sleepQ)
       /\ IF reqs[r].pc = "restartSleep"
          THEN /\ CallEnsure(r, reqs[r], s, configured)
               /\ UNCHANGED configured
          ELSE /\ ApplySup(s)
               /\ CASE reqs[r].kind = "stop" ->
                         /\ Respond(r, reqs[r], "ok")
                         /\ UNCHANGED configured
                    [] reqs[r].kind = "reset" ->
                         /\ Respond(r, reqs[r], "ok")
                         /\ configured' = FALSE
                    [] OTHER ->
                         /\ reqs' = [reqs EXCEPT ![r].pc = "body"]
                         /\ out' = {}
                         /\ UNCHANGED configured
  /\ UNCHANGED << underData, lastGatewayExit, lastDoctorAt >>
  /\ UNCHANGED << consoleVars, dataVars >>

\* The record of import handler r when it leaves the part of the handler
\* that stopped the gateway: h0, the handle signalled there, is not read
\* again, and restartGateway() starts from gatewayProc as it finds it.
pastStop(rec) == [rec EXCEPT !.h0 = NoProc]

\* readBodyBuffer settles for an import.
ImportBody ==
  \E r \in Reqs :
    /\ reqs[r].pc = "body"
    /\ \E body \in {"toolarge", "empty", "ok"} :
         CASE body = "toolarge" -> Respond(r, pastStop(reqs[r]), "500")
           [] body = "empty" -> Respond(r, pastStop(reqs[r]), "400")
           [] OTHER -> /\ reqs' = [reqs EXCEPT ![r].pc = "extract"]
                       /\ out' = {}
    /\ SupUnchanged
    /\ UNCHANGED << configured, underData, lastGatewayExit, lastDoctorAt, sleepQ >>
    /\ UNCHANGED << consoleVars, dataVars >>

\* tar.x settles for an import; the rest of the handler follows.
ImportExtract ==
  \E r \in Reqs :
    /\ reqs[r].pc = "extract"
    /\ \E result \in {"fail", "plain", "config"} :
         IF result = "fail"
         THEN /\ Respond(r, pastStop(reqs[r]), "500")
              /\ SupUnchanged
              /\ UNCHANGED << configured, sleepQ >>
         ELSE /\ configured' = (configured \/ result = "config")
              /\ IF configured'
                 THEN CallRestart(r, pastStop(reqs[r]), SupState, TRUE)
                 ELSE /\ Respond(r, pastStop(reqs[r]), "ok")
                      /\ SupUnchanged
                      /\ UNCHANGED sleepQ
    /\ UNCHANGED << underData, lastGatewayExit, lastDoctorAt >>
    /\ UNCHANGED << consoleVars, dataVars >>

(***************************************************************************)
(* The pending start attempt: the async body of gatewayStarting.           *)
(***************************************************************************)

\* The attempt settles with result; .finally() clears gatewayStarting and
\* every handler awaiting it resumes before any other handler runs.
settleAttempt(s, result) ==
  [s EXCEPT !.gatewayStarting = NoProc,
            !.attempt = NoAttempt,
            !.lastOutcome = result]

Settle(s, result) ==
  LET s1 == settleAttempt(s, result) IN
    /\ ApplySup(s1)
    /\ reqs' = [r \in Reqs |-> IF reqs[r].pc = "await" THEN Idle ELSE reqs[r]]
    /\ \E hdr \in [Reqs -> AuthValues] :
         /\ \A r \in Reqs : hdr[r] \in AuthOf(IF reqs[r].pc = "await" /\ result # "fail"
                                             THEN reqs[r].kind ELSE "none")
         /\ out' = {Forward(Complete(reqs[r], result, s1), hdr[r]) :
                   r \in {q \in Reqs : reqs[q].pc = "await"}}

Listening(p) == proc[p].st = "alive" /\ proc[p].listening

\* waitForGatewayReady: a probe of the gateway port gets an answer.
AttemptReady ==
  /\ attempt.pc \in {"waiting", "overdue"}
  /\ \E p \in Procs :
       /\ Listening(p)
       /\ Settle([SupState EXCEPT !.proc[p].probed = TRUE], "ok")
  /\ UNCHANGED << configured, underData, lastGatewayExit, lastDoctorAt, sleepQ >>
  /\ UNCHANGED << consoleVars, dataVars >>

\* 19.25 s of the 20 s window have passed: every sleep(750) running now
\* ends before the window does.
AttemptLate ==
  /\ attempt.pc = "waiting"
  /\ ~attempt.late
  /\ attempt' = [attempt EXCEPT !.late = TRUE, !.preLate = Len(sleepQ)]
  /\ out' = {}
  /\ UNCHANGED << configured, underData, gatewayProc, gatewayStarting,
                  lastGatewayError, lastGatewayExit, lastDoctorAt, proc, nprocs,
                  lastOutcome, earlyOk, sleepQ, reqs >>
  /\ UNCHANGED << consoleVars, dataVars >>

\* waitForGatewayReady: the port owner accepts the connection of a probe
\* and has sent no response when the 20 s window ends.  fetch() is called
\* without a timeout of its own and the loop looks at the clock only
\* between probes, so the wait goes on until the probe is answered
\* (AttemptReady) or given up or reset (AttemptTimeout).  A probe that
\* ends inside the window leaves the loop where it was.
ProbeStalls ==
  /\ attempt.pc = "waiting"
  /\ attempt.late
  /\ attempt.preLate = 0
  /\ \E p \in Procs : Listening(p)
  /\ attempt' = [attempt EXCEPT !.pc = "overdue"]
  /\ out' = {}
  /\ UNCHANGED << configured, underData, gatewayProc, gatewayStarting,
                  lastGatewayError, lastGatewayExit, lastDoctorAt, proc, nprocs,
                  lastOutcome, earlyOk, sleepQ, reqs >>
  /\ UNCHANGED << consoleVars, dataVars >>

\* The catch block of the attempt records the failure.
recordFailure(s) ==
  [s EXCEPT !.lastGatewayError = [kind |-> "start failure", proc |-> s.gatewayStarting]]

\* A catch block that runs the doctor command after every failure.
AttemptTimeoutDoctorEveryTime ==
  /\ \/ /\ attempt.pc = "waiting"
        /\ attempt.late
        /\ attempt.preLate = 0
        /\ \A p \in Procs : ~Listening(p)
     \/ attempt.pc = "overdue"
  /\ ApplySup([recordFailure(SupState) EXCEPT
                 !.attempt = [NoAttempt EXCEPT !.pc = "doctor"]])
  /\ lastDoctorAt' = "recent"
  /\ out' = {}
  /\ UNCHANGED reqs
  /\ UNCHANGED << configured, underData, lastGatewayExit, sleepQ >>
  /\ UNCHANGED << consoleVars, dataVars >>

\* waitForGatewayReady returns false, after a probe found nobody listening
\* at the end of the window or after an overdue probe was given up or
\* reset: the catch block records the failure
\* and calls runDoctorBestEffort, which returns at once inside its
\* 5-minute window and otherwise runs the doctor command.
AttemptTimeout ==
  /\ \/ /\ attempt.pc = "waiting"
        /\ attempt.late
        /\ attempt.preLate = 0
        /\ \A p \in Procs : ~Listening(p)
     \/ attempt.pc = "overdue"
  /\ IF lastDoctorAt = "recent"
     THEN /\ Settle(recordFailure(SupState), "fail")
          /\ UNCHANGED lastDoctorAt
     ELSE /\ ApplySup([recordFailure(SupState) EXCEPT
                        !.attempt = [NoAttempt EXCEPT !.pc = "doctor"]])
          /\ lastDoctorAt' = "recent"
          /\ out' = {}
          /\ UNCHANGED reqs
  /\ UNCHANGED << configured, underData, lastGatewayExit, sleepQ >>
  /\ UNCHANGED << consoleVars, dataVars >>

\* The doctor command has ended; the attempt rethrows its failure.
DoctorDone ==
  /\ attempt.pc = "doctor"
  /\ Settle(SupState, "fail")
  /\ UNCHANGED << configured, underData, lastGatewayExit, lastDoctorAt, sleepQ >>
  /\ UNCHANGED << consoleVars, dataVars >>

\* Five minutes have passed since the last doctor run.
DoctorWindowEnds ==
  /\ lastDoctorAt = "recent"
  /\ attempt.pc # "doctor"
  /\ lastDoctorAt' = "old"
  /\ out' = {}
  /\ SupUnchanged
  /\ UNCHANGED << configured, underData, lastGatewayExit, sleepQ, reqs >>
  /\ UNCHANGED << consoleVars, dataVars >>

(***************************************************************************)
(* The backend processes.                                                  *)
(***************************************************************************)

\* A live process binds the gateway port; the port has one owner.
ProcListens ==
  \E p \in Procs :
    /\ proc[p].st = "alive"
    /\ \A q \in Procs : ~Listening(q)
    /\ proc' = [proc EXCEPT ![p].listening = TRUE]
    /\ out' = {}
    /\ UNCHANGED << configured, underData, gatewayProc, gatewayStarting, attempt,
                    lastGatewayError, lastGatewayExit, lastDoctorAt, nprocs,
                    lastOutcome, earlyOk, sleepQ, reqs >>
    /\ UNCHANGED << consoleVars, dataVars >>

\* A live process ends, by itself or on the signal it was sent.
ProcDies ==
  \E p \in Procs :
    /\ proc[p].st = "alive"
    /\ proc' = [proc EXCEPT ![p].st = "exited", ![p].listening = FALSE,
                            ![p].probed = FALSE]
    /\ out' = {}
    /\ UNCHANGED << configured, underData, gatewayProc, gatewayStarting, attempt,
                    lastGatewayError, lastGatewayExit, lastDoctorAt, nprocs,
                    lastOutcome, earlyOk, sleepQ, reqs >>
    /\ UNCHANGED << consoleVars, dataVars >>

\* An "exit" listener that records the exit and leaves the handle.
onExitKeepsHandle(s, p) == [s EXCEPT !.proc[p] = Gone]

\* The "exit" listener that startGateway registered on process p.
onExit(s, p) == [s EXCEPT !.gatewayProc = NoProc, !.proc[p] = Gone]

ExitEvent ==
  \E p \in Procs :
    /\ proc[p].st = "exited"
    /\ ApplySup(onExit(SupState, p))
    /\ lastGatewayExit' = p
    /\ out' = {}
    /\ UNCHANGED << configured, underData, lastDoctorAt, sleepQ, reqs >>
    /\ UNCHANGED << consoleVars, dataVars >>

(***************************************************************************)
(* The console's openclaw.* commands.  A text is the sequence of its       *)
(* characters.  The handlers of two console requests share no variable,    *)
(* so one runCmd() call at a time is followed, from the request to the     *)
(* close of its process.                                                    *)
(***************************************************************************)

MaxArgLen == 3
MaxChunks == 3

Letters == {"a", "b", "p", "r", "s", "k", "g", "h", "o", "x",
            "A", "C", "D", "E", "R", "T"}
Digits == {"0", "9"}
DigitValue == [c \in Digits |-> IF c = "0" THEN 0 ELSE 9]
Word == Letters \cup Digits
Space == {" ", "\n"}
TimeoutMarker == << "\n", "[timeout]", "\n" >>
SpawnErrorMarker == << "\n", "[spawn error]", "\n" >>
NonSpace == Word \cup {"_", "-", ":", ".", "[", "]", "[timeout]", "[spawn error]"}

\* The character c, n times.
Rep(c, n) == [i \in 1..n |-> c]

\* The values of payload.arg.
ArgChars == {"a", "9", "0", "-", ".", Blank}
Args == UNION { [1..n -> ArgChars] : n \in 0..MaxArgLen }

\* /^[A-Za-z0-9_-]+$/.test(s)
isIdentifier(s) == s # << >> /\ \A i \in 1..Len(s) : s[i] \in Word \cup {"_", "-"}

RECURSIVE digitsValue(_, _)
digitsValue(s, acc) ==
  IF s # << >> /\ Head(s) \in Digits
  THEN digitsValue(Tail(s), 10 * acc + DigitValue[Head(s)])
  ELSE acc

\* Number.parseInt(s, 10): an optional sign and the digits that follow it;
\* NaN when no digit follows.
parseInt(s) ==
  LET t == trimStart(s)
      signed == t # << >> /\ Head(t) \in {"-", "+"}
      u == IF signed THEN Tail(t) ELSE t
  IN  IF u = << >> \/ Head(u) \notin Digits
      THEN [nan |-> TRUE, n |-> 0]
      ELSE [nan |-> FALSE,
            n |-> IF Head(t) = "-" THEN 0 - digitsValue(u, 0) ELSE digitsValue(u, 0)]

TailDefault == 200
TailMin == 50
TailMax == 1000
Min(a, b) == IF a < b THEN a ELSE b
Max(a, b) == IF a > b THEN a ELSE b

\* Math.max(50, Math.min(1000, Number.parseInt(arg || "200", 10) || 200))
tailLines(arg) ==
  LET v == parseInt(arg)
      n == IF arg = << >> \/ v.nan \/ v.n = 0 THEN TailDefault ELSE v.n
  IN  Max(TailMin, Min(TailMax, n))

\* The handler spawns openclaw with the arguments sub, then param if the
\* command takes a text and lines if it takes a number.
Spawned(cmd, sub, param, lines) ==
  [NoEvent EXCEPT !.cmd = cmd, !.spawned = TRUE, !.sub = sub, !.param = param,
                  !.lines = lines]

\* The handler answers 400 without spawning.
Refused(cmd, error) == [NoEvent EXCEPT !.cmd = cmd, !.status = 400, !.error = error]

\* The handler from payload to its first await or its return.  The
\* gateway.* commands are ConsoleStart, ConsoleRestart and ConsoleStop.
consoleRun(rawCmd, rawArg) ==
  LET cmd == trim(rawCmd)
      arg == trim(rawArg)
      b == consoleBranch(rawCmd)
  IN  CASE b = << "notallowed" >> -> Refused(cmd, "Command not allowed")
        [] b = << "openclaw.version" >> -> Spawned(cmd, << "--version" >>, << >>, 0)
        [] b = << "openclaw.status" >> -> Spawned(cmd, << "status" >>, << >>, 0)
        [] b = << "openclaw.health" >> -> Spawned(cmd, << "health" >>, << >>, 0)
        [] b = << "openclaw.doctor" >> -> Spawned(cmd, << "doctor" >>, << >>, 0)
        [] b = << "openclaw.logs.tail" >> ->
             Spawned(cmd, << "logs", "--tail" >>, << >>, tailLines(arg))
        [] b = << "openclaw.config.get" >> ->
             IF arg = << >> THEN Refused(cmd, "Missing config path")
             ELSE Spawned(cmd, << "config", "get" >>, arg, 0)
        [] b = << "openclaw.devices.list" >> -> Spawned(cmd, << "devices", "list" >>, << >>, 0)
        [] b = << "openclaw.devices.approve" >> ->
             LET requestId == trim(arg) IN
             IF requestId = << >> THEN Refused(cmd, "Missing device request ID")
             ELSE IF ~isIdentifier(requestId) THEN Refused(cmd, "Invalid device request ID")
             ELSE Spawned(cmd, << "devices", "approve" >>, requestId, 0)
        [] b = << "openclaw.plugins.list" >> -> Spawned(cmd, << "plugins", "list" >>, << >>, 0)
        [] b = << "openclaw.plugins.enable" >> ->
             LET name == trim(arg) IN
             IF name = << >> THEN Refused(cmd, "Missing plugin name")
             ELSE IF ~isIdentifier(name) THEN Refused(cmd, "Invalid plugin name")
             ELSE Spawned(cmd, << "plugins", "enable" >>, name, 0)
        [] OTHER -> NoEvent

\* The values of payload.cmd sent to the openclaw.* commands: the ten
\* names, one of them padded, one followed by an option, a name that is
\* not a console command, and no command at all.
ConsoleCmds ==
  { c \in ALLOWED_CONSOLE_COMMANDS : c \notin GatewayCmds }
    \cup { << Blank, "openclaw.status", Blank >>,
           << "openclaw.status", Blank, "--all" >>, << "sh" >>, << >> }

\* What the handler does with each payload.
Outcomes == { consoleRun(c, a) : c \in ConsoleCmds, a \in Args }

(***************************************************************************)
(* redactSecrets: five global replacements, one after the other.  Each    *)
(* pattern is a fixed start followed by runs of characters of a class, so  *)
(* its leftmost match at a position is the longest one.                    *)
(***************************************************************************)

Placeholder == << "[", "R", "E", "D", "A", "C", "T", "E", "D", "]" >>
MinRun == 10
MinDigits == 5

\* The number of characters of class that text has from position i on.
RECURSIVE runLen(_, _, _)
runLen(text, i, class) ==
  IF i <= Len(text) /\ text[i] \in class THEN 1 + runLen(text, i + 1, class) ELSE 0

hasAt(text, i, lit) ==
  i + Len(lit) - 1 <= Len(text) /\ SubSeq(text, i, i + Len(lit) - 1) = lit

\* Length of the match at i of one of the starts lits followed by
\* class{10,}; 0 for no match.
prefixed(text, i, lits, class) ==
  LET ls == { lit \in lits : hasAt(text, i, lit) } IN
  IF ls = {} THEN 0
  ELSE LET lit == CHOOSE l \in ls : TRUE
           n == runLen(text, i + Len(lit), class)
       IN  IF n >= MinRun THEN Len(lit) + n ELSE 0

\* /\d{5,}:[A-Za-z0-9_-]{10,}/ at i.
botToken(text, i) ==
  LET d == runLen(text, i, Digits)
      n == runLen(text, i + d + 1, Word \cup {"_", "-"})
  IN  IF d >= MinDigits /\ i + d <= Len(text) /\ text[i + d] = ":" /\ n >= MinRun
      THEN d + 1 + n ELSE 0

\* /AA[A-Za-z0-9_-]{10,}:\S{10,}/ at i.
aaToken(text, i) ==
  LET n == runLen(text, i + 2, Word \cup {"_", "-"})
      m == runLen(text, i + n + 3, NonSpace)
  IN  IF /\ hasAt(text, i, << "A", "A" >>) /\ n >= MinRun
         /\ i + n + 2 <= Len(text) /\ text[i + n + 2] = ":" /\ m >= MinRun
      THEN n + m + 3 ELSE 0

XoxStarts == { << "x", "o", "x", c, "-" >> : c \in {"b", "a", "p", "r", "s"} }

\* Length of the match of the k-th pattern at i; 0 for no match.
matchLen(text, i, k) ==
  CASE k = 1 -> prefixed(text, i, { << "s", "k", "-" >> }, Word \cup {"_", "-"})
    [] k = 2 -> prefixed(text, i, { << "g", "h", "o", "_" >> }, Word \cup {"_"})
    [] k = 3 -> prefixed(text, i, XoxStarts, Word \cup {"-"})
    [] k = 4 -> botToken(text, i)
    [] k = 5 -> aaToken(text, i)

\* text.replace(pattern k, "[REDACTED]") with the g flag, from position i.
RECURSIVE replaceFrom(_, _, _)
replaceFrom(text, i, k) ==
  IF i > Len(text) THEN << >>
  ELSE LET n == matchLen(text, i, k) IN
       IF n > 0 THEN Placeholder \o replaceFrom(text, i + n, k)
       ELSE << text[i] >> \o replaceFrom(text, i + 1, k)

\* A filter that returns the text as it came.
keepText(text) == text

redactSecrets(text) ==
  IF text = << >> THEN text
  ELSE LET t1 == replaceFrom(text, 1, 1)
           t2 == replaceFrom(t1, 1, 2)
           t3 == replaceFrom(t2, 1, 3)
           t4 == replaceFrom(t3, 1, 4)
       IN  replaceFrom(t4, 1, 5)

(***************************************************************************)
(* runCmd and the handler's continuation.                                  *)
(***************************************************************************)

\* The ceiling that runDoctorBestEffort applies to what it keeps of the
\* doctor's output (50,000 characters), in the scale of the texts here.
OutputCeiling == 20
TruncationMarker == << "\n", "... (truncated)", "\n" >>

\* out.length > 50_000 ? out.slice(0, 50_000) + "\n... (truncated)\n" : out
capOutput(text) ==
  IF Len(text) > OutputCeiling
  THEN SubSeq(text, 1, OutputCeiling) \o TruncationMarker
  ELSE text

TimedOut == 124
SpawnFailed == 127

\* What the command may write in one data event.
Chunks ==
  { << "s", "k", "-" >>, << "g", "h", "o", "_" >>, << "x", "o", "x", "b", "-" >>,
    Rep("9", MinDigits), << ":" >>, Rep("a", MinRun),
    << "A", "A" >> \o Rep("a", MinRun), << " " >> }

\* runCmd() after a spawn that succeeded: the timer is set.
Started == [NoRun EXCEPT !.pc = "pending", !.st = "alive", !.timer = "armed"]

\* res.status(r.code === 0 ? 200 : 500).json({ ok, output: redactSecrets(r.output) })
Result(e, code, text) ==
  [e EXCEPT !.status = IF code = 0 THEN 200 ELSE 500, !.code = code,
            !.raw = text, !.output = redactSecrets(text)]

\* A console request with an openclaw.* command or a command that is
\* refused.  A spawn that fails emits "error" from process.nextTick, and
\* the handler resumes before any other event.
ConsoleRun ==
  /\ run.pc = "idle"
  /\ \E o \in Outcomes :
       IF ~o.spawned
       THEN run' = run /\ cev' = o
       ELSE \E spawnOk \in BOOLEAN :
              IF spawnOk
              THEN run' = Started /\ cev' = o
              ELSE run' = NoRun /\ cev' = Result(o, SpawnFailed, SpawnErrorMarker)
  /\ UNCHANGED << gatewayVars, dataVars >>

\* A data event of stdout or stderr.  What is written after the promise
\* has resolved is appended to a string that nobody reads.
CmdWrites ==
  /\ run.pc = "pending" /\ run.st = "alive" /\ run.chunks < MaxChunks
  /\ \E c \in Chunks : run' = [run EXCEPT !.out = @ \o c, !.chunks = @ + 1]
  /\ cev' = NoEvent
  /\ UNCHANGED << gatewayVars, dataVars >>

\* The process ends: by itself with a code, or killed by a signal, sent by
\* runCmd or by anyone else.
CmdExits ==
  /\ run.st = "alive"
  /\ \E code \in {0, 1, NullCode} : run' = [run EXCEPT !.st = "exited", !.code = code]
  /\ cev' = NoEvent
  /\ UNCHANGED << gatewayVars, dataVars >>

\* A timer callback that signals the process and resolves nothing.
CmdTimeoutSilent ==
  /\ run.timer = "armed"
  /\ run' = [run EXCEPT !.timer = "fired", !.killTimer = "armed",
                        !.sigs = IF run.st = "alive" THEN Append(@, "SIGTERM") ELSE @]
  /\ cev' = NoEvent
  /\ UNCHANGED << gatewayVars, dataVars >>

\* The timer of timeoutMs fires: SIGTERM, the kill timer, the marker, and
\* resolve({ code: 124 }), after which the handler responds.  kill() sends
\* nothing to a process that has ended.
CmdTimeout ==
  /\ run.timer = "armed"
  /\ LET text == run.out \o TimeoutMarker IN
       /\ run' = [run EXCEPT !.pc = "done", !.timer = "fired", !.killTimer = "armed",
                             !.sigs = IF run.st = "alive" THEN Append(@, "SIGTERM") ELSE @,
                             !.out = text, !.result = TimedOut]
       /\ cev' = Result(NoEvent, TimedOut, text)
  /\ UNCHANGED << gatewayVars, dataVars >>

\* The kill timer fires 2 s later: SIGKILL, which ends the process.
CmdKillTimer ==
  /\ run.killTimer = "armed"
  /\ run' = IF run.st = "alive"
            THEN [run EXCEPT !.killTimer = "fired", !.st = "exited", !.code = NullCode,
                             !.sigs = Append(@, "SIGKILL")]
            ELSE [run EXCEPT !.killTimer = "fired"]
  /\ cev' = NoEvent
  /\ UNCHANGED << gatewayVars, dataVars >>

\* The close event: both timers are cleared, and resolve({ code: code ?? 0 })
\* settles the promise unless the timeout already did.
CmdClose ==
  /\ run.st = "exited"
  /\ cev' = IF run.pc = "pending"
            THEN Result(NoEvent, IF run.code = NullCode THEN 0 ELSE run.code, run.out)
            ELSE NoEvent
  /\ run' = NoRun
  /\ UNCHANGED << gatewayVars, dataVars >>

Next ==
  \/ ProxyRequest
  \/ UpgradeRequest
  \/ ConsoleRejected
  \/ ConsoleStart
  \/ ConsoleRestart
  \/ ConsoleStop
  \/ ResetRequest
  \/ RawConfigWrite
  \/ ImportRequest
  \/ Wake
  \/ ImportBody
  \/ ImportExtract
  \/ AttemptReady
  \/ AttemptLate
  \/ ProbeStalls
  \/ AttemptTimeout
  \/ DoctorDone
  \/ DoctorWindowEnds
  \/ ProcListens
  \/ ProcDies
  \/ ExitEvent

Spec == Init /\ [][Next]_vars

\* The console's openclaw.* commands on a configured system.
InitConsole == Init /\ configured /\ underData

NextConsole ==
  \/ ConsoleRun
  \/ CmdWrites
  \/ CmdExits
  \/ CmdTimeout
  \/ CmdKillTimer
  \/ CmdClose

SpecConsole == InitConsole /\ [][NextConsole]_vars

(***************************************************************************)
(* Properties.                                                             *)
(***************************************************************************)
(* The administrative endpoints and the files they touch.  The state       *)
(* directory is /data/s, the workspace /data/w, the config artifact        *)
(* /data/s/c unless OPENCLAW_CONFIG_PATH names /data/k.  A path is the     *)
(* sequence of its characters.                                             *)
(***************************************************************************)

MaxPathLen == 3
MaxBodyBytes == 3

Absent == "absent"
Contents == {"v1", "v2"}
Unset == << >>

\* s.split(sep): the pieces of s between the occurrences of sep.
RECURSIVE split(_, _)
split(s, sep) ==
  IF \A i \in 1..Len(s) : s[i] # sep THEN << s >>
  ELSE LET i == CHOOSE j \in 1..Len(s) : s[j] = sep /\ \A k \in 1..(j - 1) : s[k] # sep
       IN  << SubSeq(s, 1, i - 1) >> \o split(SubSeq(s, i + 1, Len(s)), sep)

Range(s) == { s[i] : i \in 1..Len(s) }

PathLetters == Letters \cup {"c", "f", "w"}

looksSafeTarPath(p) ==
  IF p = << >> THEN FALSE
  ELSE IF Head(p) \in {"/", "\\"} THEN FALSE
  ELSE IF Len(p) >= 3 /\ p[1] \in PathLetters /\ p[2] = ":" /\ p[3] \in {"\\", "/"} THEN FALSE
  ELSE IF << ".", "." >> \in Range(split(p, "/")) THEN FALSE
  ELSE TRUE

\* The segments of /data.
DataRoot == << << "data" >> >>

\* path.resolve applied to segments: "" and "." are dropped, ".." removes
\* the segment before it.
RECURSIVE normalize(_, _)
normalize(done, segs) ==
  IF segs = << >> THEN done
  ELSE LET h == Head(segs) IN
       IF h = << >> \/ h = << "." >> THEN normalize(done, Tail(segs))
       ELSE IF h = << ".", "." >>
            THEN normalize(IF done = << >> THEN done ELSE SubSeq(done, 1, Len(done) - 1),
                           Tail(segs))
       ELSE normalize(Append(done, h), Tail(segs))

\* Where tar.x with cwd /data writes the entry p: path.resolve("/data", p).
targetOf(p) ==
  IF p # << >> /\ Head(p) = "/"
  THEN normalize(<< >>, split(p, "/"))
  ELSE normalize(DataRoot, split(p, "/"))

\* isUnderDir(p, "/data") for a resolved path.
isUnderData(segs) == segs # << >> /\ Head(segs) = << "data" >>

\* Segments joined with "/".
RECURSIVE join(_)
join(segs) ==
  IF segs = << >> THEN << >>
  ELSE IF Len(segs) = 1 THEN Head(segs)
  ELSE Head(segs) \o << "/" >> \o join(Tail(segs))

\* path.relative("/data", abs) for abs under /data, "." for /data itself.
relative(abs) == IF Len(abs) = 1 THEN << "." >> ELSE join(Tail(abs))

StateAbs == DataRoot \o << << "s" >> >>
WorkspaceAbs == DataRoot \o << << "w" >> >>

\* resolveConfigCandidates()[0]: the explicit path, or STATE_DIR/openclaw.json.
configTarget(e) ==
  IF e.configOverride THEN DataRoot \o << << "k" >> >> ELSE StateAbs \o << << "c" >> >>

\* The archive that tar.c makes of the state directory and the workspace,
\* relative to /data: the config artifact if it lies in the state
\* directory, and a workspace file.
exportArchive(e, f) ==
  (IF ~e.configOverride /\ f.config # Absent
   THEN { [path |-> relative(StateAbs) \o << "/", "c" >>, content |-> f.config] }
   ELSE {})
    \cup { [path |-> relative(WorkspaceAbs) \o << "/", "f" >>, content |-> "w"] }

\* The entries that the filter lets through.
accepted(archive) == { en \in archive : looksSafeTarPath(en.path) }

\* The files after tar.x has extracted archive into /data: an entry that
\* lands on the config artifact replaces it.
extracted(e, f, archive) ==
  LET hits == { en \in accepted(archive) : targetOf(en.path) = configTarget(e) } IN
  IF hits = {} THEN f
  ELSE [f EXCEPT !.config = (CHOOSE en \in hits : TRUE).content]

\* The values of an archive entry's path in an upload.
PathChars == {"/", "\\", ".", "a", "C", ":"}
Paths == UNION { [1..n -> PathChars] : n \in 1..MaxPathLen }

\* The uploads: one entry with any path, a config artifact at the place
\* export puts it, with or without a workspace file.
Uploads ==
  { { [path |-> p, content |-> "x"] } : p \in Paths }
    \cup { { [path |-> << "s", "/", "c" >>, content |-> c] } : c \in Contents }
    \cup { { [path |-> << "s", "/", "c" >>, content |-> c],
             [path |-> << "w", "/", "f" >>, content |-> "w"] } : c \in Contents }
    \cup { { [path |-> << "w", "/", "f" >>, content |-> "w"] } }

(***************************************************************************)
(* requireSetupAuth.  An Authorization header is the sequence of its       *)
(* pieces, a blank being a piece of its own; Base64 gives the text that a  *)
(* base64 piece decodes to.                                                *)
(***************************************************************************)

SetupPasswords == { Unset, << "p", ":", "w" >> }

Base64 ==
  [e \in {"dTpwOnc=", "OnA6dw==", "cDp3", "dTp3", "dTo=", "cHc="} |->
     CASE e = "dTpwOnc=" -> << "u", ":", "p", ":", "w" >>
       [] e = "OnA6dw==" -> << ":", "p", ":", "w" >>
       [] e = "cDp3"     -> << "p", ":", "w" >>
       [] e = "dTp3"     -> << "u", ":", "w" >>
       [] e = "dTo="     -> << "u", ":" >>
       [] e = "cHc="     -> << "p", "w" >>]

\* Buffer.from(word, "base64").toString("utf8").
decode(word) ==
  IF Len(word) = 1 /\ word[1] \in DOMAIN Base64 THEN Base64[word[1]] ELSE << "?" >>

\* s.indexOf(c), counted from 1; 0 when c does not occur.
indexOf(s, c) ==
  IF \E i \in 1..Len(s) : s[i] = c
  THEN CHOOSE i \in 1..Len(s) : s[i] = c /\ \A k \in 1..(i - 1) : s[k] # c
  ELSE 0

Headers ==
  { << >>, << "Basic" >>, << "Basic", Blank >> }
    \cup { << "Basic", Blank, e >> : e \in DOMAIN Base64 }
    \cup { << "Basic", Blank, Blank, "dTpwOnc=" >>,
           << "Bearer", Blank, "dTpwOnc=" >>,
           << "basic", Blank, "dTpwOnc=" >>,
           << "Basic", Blank, "dTpwOnc=", Blank, "x" >>,
           << "Basic", Blank, "x" >> }

\* A gate that looks at the scheme only.
authAnyBasic(pw, header) ==
  IF pw = Unset THEN "500"
  ELSE IF Head(split(header, Blank)) # << "Basic" >> THEN "401 Auth required"
  ELSE "next"

requireSetupAuth(pw, header) ==
  IF pw = Unset THEN "500"
  ELSE LET parts == split(header, Blank)
           scheme == parts[1]
           encoded == IF Len(parts) >= 2 THEN parts[2] ELSE << >>
       IN  IF scheme # << "Basic" >> \/ encoded = << >> THEN "401 Auth required"
           ELSE LET decoded == decode(encoded)
                    idx == indexOf(decoded, ":")
                    password == IF idx >= 1
                                THEN SubSeq(decoded, idx + 1, Len(decoded))
                                ELSE << >>
                IN  IF password # pw THEN "401 Invalid password" ELSE "next"

\* The headers that the gate lets through, and its answers to the others.
Admitted == [pw \in SetupPasswords |-> { h \in Headers : requireSetupAuth(pw, h) = "next" }]
Refusals == [pw \in SetupPasswords |-> { requireSetupAuth(pw, h) : h \in Headers } \ {"next"}]

\* The routes behind the gate whose handlers are modelled by the actions
\* below, and the others.
FileRoutes == {"config.raw.write", "reset", "export", "import"}
OtherRoutes == {"app.js", "setup", "status", "auth-groups", "run", "debug",
                "console.run", "config.raw.read", "pairing.approve",
                "devices.pending", "devices.approve"}

(***************************************************************************)
(* The state of the files, of the import in progress, and the event of     *)
(* the last step.                                                          *)
(***************************************************************************)

NoFile == << "ENOENT" >>
NoExport == [made |-> FALSE, archive |-> {}, config |-> Absent]
NoJob == [pc |-> "idle", total |-> 0, buffered |-> 0]
NoDev == [kind |-> "none", route |-> "none", header |-> << >>, status |-> "none",
          archive |-> {}, passed |-> {}, wrote |-> {}, total |-> 0,
            buffered |-> 0]

Envs == [setupPassword : SetupPasswords, configOverride : BOOLEAN, gatewayToken : {<< >>}]

Dev(kind, route, header, status) ==
  [NoDev EXCEPT !.kind = kind, !.route = route, !.header = header, !.status = status]

\* The supervisor's and the console's variables, which these handlers'
\* file operations leave alone.
restVars == << underData, gatewayProc, gatewayStarting, attempt,
               lastGatewayError, lastGatewayExit, lastDoctorAt, proc, nprocs,
               lastOutcome, earlyOk, sleepQ, reqs, out, run, cev, tokens >>

\* isConfigured() after the files became f.
Configured(f) == configured' = (f.config # Absent)

\* The gate answers 500 or 401 and the handler is not called.
Unauthorized ==
  /\ \E status \in Refusals[env.setupPassword] :
       dev' = Dev("refused", "any", << >>, status)
  /\ UNCHANGED << configured, env, fs, exported, job, restVars >>

\* A handler that writes no file of this layer is entered.
OtherAdmin ==
  /\ \E h \in Admitted[env.setupPassword], route \in OtherRoutes :
       dev' = Dev("entered", route, h, "200")
  /\ UNCHANGED << configured, env, fs, exported, job, restVars >>

\* POST /setup/api/config/raw: the content is refused as too large, or the
\* existing file is copied to a backup and the content written.
RawWriteFile ==
  /\ \E h \in Admitted[env.setupPassword], content \in Contents \cup {"toolarge"} :
       IF content = "toolarge"
       THEN /\ dev' = Dev("entered", "config.raw.write", h, "413")
            /\ UNCHANGED << fs, configured >>
       ELSE /\ fs' = [fs EXCEPT
                        !.backups = IF fs.config # Absent THEN @ \cup {fs.config} ELSE @,
                        !.config = content]
            /\ Configured(fs')
            /\ dev' = Dev("entered", "config.raw.write", h, "200")
  /\ UNCHANGED << env, exported, job, restVars >>

\* POST /setup/api/reset: the config candidates are removed.
ResetFiles ==
  /\ \E h \in Admitted[env.setupPassword] :
       dev' = Dev("entered", "reset", h, "200")
  /\ fs' = [fs EXCEPT !.config = Absent]
  /\ Configured(fs')
  /\ UNCHANGED << env, exported, job, restVars >>

\* GET /setup/export: the archive goes to the caller.
Export ==
  /\ \E h \in Admitted[env.setupPassword] :
       dev' = [Dev("entered", "export", h, "200") EXCEPT !.archive = exportArchive(env, fs)]
  /\ exported' = [made |-> TRUE, archive |-> exportArchive(env, fs), config |-> fs.config]
  /\ UNCHANGED << configured, env, fs, job, restVars >>

\* POST /setup/import up to the wait for the body.
ImportUpload ==
  /\ job.pc = "idle"
  /\ \E h \in Admitted[env.setupPassword] :
       IF ~underData
       THEN /\ dev' = Dev("entered", "import", h, "400")
            /\ UNCHANGED job
       ELSE /\ dev' = Dev("entered", "import", h, "none")
            /\ job' = [NoJob EXCEPT !.pc = "body"]
  /\ UNCHANGED << configured, env, fs, exported, restVars >>

\* A data handler that stores the chunk before it compares the total.
onDataPushFirst(j, n) ==
  IF j.total + n > MaxBodyBytes
  THEN [pc |-> "rejected", total |-> j.total + n, buffered |-> j.buffered + n]
  ELSE [j EXCEPT !.total = @ + n, !.buffered = @ + n]

\* readBodyBuffer's data handler for a chunk of n bytes.
onData(j, n) ==
  IF j.total + n > MaxBodyBytes
  THEN [pc |-> "rejected", total |-> j.total + n, buffered |-> j.buffered]
  ELSE [j EXCEPT !.total = @ + n, !.buffered = @ + n]

ChunkSizes == {1, 2}

\* A chunk of the body arrives; past the ceiling the promise is rejected,
\* the request destroyed and the handler's catch answers 500.
BodyData ==
  /\ job.pc = "body"
  /\ \E n \in ChunkSizes :
       LET j == onData(job, n) IN
       IF j.pc = "rejected"
       THEN /\ job' = NoJob
            /\ dev' = [Dev("body", "import", << >>, "500") EXCEPT
                         !.total = j.total, !.buffered = j.buffered]
       ELSE /\ job' = j
            /\ dev' = [Dev("body", "import", << >>, "none") EXCEPT
                         !.total = j.total, !.buffered = j.buffered]
  /\ UNCHANGED << configured, env, fs, exported, restVars >>

\* The request fails while the body is read.
BodyError ==
  /\ job.pc = "body"
  /\ job' = NoJob
  /\ dev' = [Dev("body", "import", << >>, "500") EXCEPT !.total = job.total]
  /\ UNCHANGED << configured, env, fs, exported, restVars >>

\* The body ends: an empty one is answered 400, another is written to the
\* temporary file.
BodyEnd ==
  /\ job.pc = "body"
  /\ IF job.buffered = 0
     THEN /\ job' = NoJob
          /\ dev' = Dev("body", "import", << >>, "400")
     ELSE /\ job' = [job EXCEPT !.pc = "extract"]
          /\ dev' = [Dev("body", "import", << >>, "none") EXCEPT !.total = job.total]
  /\ UNCHANGED << configured, env, fs, exported, restVars >>

\* The archives that the uploaded bytes may be.
Archives == Uploads \cup (IF exported.made THEN {exported.archive} ELSE {})

\* tar.x extracts the entries that the filter lets through.
Extract ==
  /\ job.pc = "extract"
  /\ \E archive \in Archives :
       /\ fs' = extracted(env, fs, archive)
       /\ dev' = [Dev("extracted", "import", << >>, "200") EXCEPT
                    !.archive = archive,
                    !.passed = accepted(archive),
                    !.wrote = { targetOf(en.path) : en \in accepted(archive) },
                    !.total = job.total]
  /\ job' = NoJob
  /\ Configured(fs')
  /\ UNCHANGED << env, exported, restVars >>

(***************************************************************************)
(* resolveGatewayToken, run once by every start of the wrapper.  A token   *)
(* is << "env" >> for the operator's, << "gen", n >> for the n-th one      *)
(* generated, << "old" >> for one found in the state directory.            *)
(***************************************************************************)

MaxBoots == 4

\* The token returned and the token file left behind: envTok is the
\* trimmed OPENCLAW_GATEWAY_TOKEN, file the trimmed content of
\* gateway.token, readOk and writeOk whether readFileSync and writeFileSync
\* succeed, generated the fresh random token.
resolveGatewayToken(envTok, file, readOk, generated, writeOk) ==
  IF envTok # << >> THEN [token |-> envTok, file |-> file]
  ELSE IF readOk /\ file # NoFile /\ file # << >> THEN [token |-> file, file |-> file]
  ELSE [token |-> generated, file |-> IF writeOk THEN generated ELSE file]

\* The wrapper starts.
Boot ==
  /\ Len(tokens) < MaxBoots
  /\ \E readOk \in (IF fs.token = NoFile THEN {FALSE} ELSE BOOLEAN), writeOk \in BOOLEAN :
       LET r == resolveGatewayToken(env.gatewayToken, fs.token, readOk,
                                    << "gen", Len(tokens) + 1 >>, writeOk)
       IN  /\ tokens' = Append(tokens, r.token)
           /\ fs' = [fs EXCEPT !.token = r.file]
  /\ UNCHANGED << gatewayVars, consoleVars, env, exported, job, dev >>

InitData ==
  /\ Quiet
  /\ underData = TRUE
  /\ env \in Envs
  /\ fs \in [config : {Absent, "v1"}, backups : {{}}, token : {NoFile}]
  /\ configured = (fs.config # Absent)
  /\ exported = NoExport
  /\ job = NoJob
  /\ dev = NoDev
  /\ tokens = << >>

NextData ==
  \/ Unauthorized
  \/ OtherAdmin
  \/ RawWriteFile
  \/ ResetFiles
  \/ Export
  \/ ImportUpload
  \/ BodyData
  \/ BodyError
  \/ BodyEnd
  \/ Extract

SpecData == InitData /\ [][NextData]_vars

InitBoot ==
  /\ Quiet
  /\ configured \in BOOLEAN
  /\ underData \in BOOLEAN
  /\ env \in [setupPassword : SetupPasswords, configOverride : {FALSE},
               gatewayToken : {<< >>, << "env" >>}]
  /\ fs \in [config : {IF configured THEN "v1" ELSE Absent}, backups : {{}},
              token : {NoFile, << >>, << "old" >>}]
  /\ exported = NoExport
  /\ job = NoJob
  /\ dev = NoDev
  /\ tokens = << >>

SpecBoot == InitBoot /\ [][Boot]_vars

(***************************************************************************)

Alive(p) == proc[p].st = "alive"
Awaiting(r) == reqs[r].pc = "await"
\* The supervisor is in Crashed: the latest attempt failed, none is pending.
Crashed == gatewayStarting = NoProc /\ lastOutcome = "fail"
\* Handler r enters ensureGatewayRunning() in this step and suspends in it.
Suspends(r) == reqs[r].pc # "await" /\ reqs'[r].pc = "await"

\* C1: while the call that started an attempt is still pending, the process
\* that call spawned is the only one spawned since, however many calls of
\* ensureGatewayRunning() have been made meanwhile.
C1_OneSpawnPerAttempt ==
  \A r \in Reqs :
    (Awaiting(r) /\ reqs[r].egr = "spawn") =>
      /\ nprocs = reqs[r].att
      /\ gatewayStarting = reqs[r].att

\* A second call has attached to the attempt the first call started.
C1_Witness ==
  \E r1, r2 \in Reqs :
    /\ Awaiting(r1) /\ reqs[r1].egr = "spawn"
    /\ Awaiting(r2) /\ reqs[r2].egr = "attach"
    /\ reqs[r2].att = reqs[r1].att
    /\ nprocs = reqs[r1].att

\* C2: no call of ensureGatewayRunning() that overlapped a start attempt
\* was answered with success when that attempt ended in failure.
C2_SameOutcome ==
  (gatewayStarting = NoProc /\ lastOutcome = "fail") => ~earlyOk

\* C3: at most one backend process is alive.
C3_AtMostOneAlive ==
  Cardinality({p \in Procs : Alive(p)}) <= 1

\* C4: every request the proxy forwards on a configured system is forwarded
\* while the held backend process has answered a readiness probe.
C4_ForwardOnlyWhenReady ==
  \A o \in out :
    (o.kind = "proxy" /\ o.resp = "forwarded" /\ o.fwd # "unconf") => o.fwd = "ready"

\* C5: no backend process is spawned while a restartGateway() call is
\* inside its grace period and the process it signalled is still alive.
C5_NoSpawnInGrace ==
  [][\A r \in Reqs :
       (reqs[r].pc = "restartSleep" /\ reqs'[r].pc = "restartSleep"
          /\ Alive(reqs[r].h0))
         => nprocs' = nprocs]_vars

\* C6: when restartGateway() completes after it was called with handle h
\* held, gatewayProc is not h: it is null or a process spawned later.
C6_NoStaleHandle ==
  \A o \in out :
    (UsesRestart(o.kind) /\ o.h0 # NoProc) =>
      /\ o.endProc = gatewayProc
      /\ gatewayProc # o.h0
      /\ gatewayProc = NoProc \/ gatewayProc > o.h0

\* restartGateway() has returned with a new process held.
C6_Witness ==
  \E o \in out :
    /\ UsesRestart(o.kind) /\ o.h0 # NoProc
    /\ o.er = "ok"
    /\ o.endProc > o.h0
    /\ Alive(o.h0)

C8_CrashedHoldsNothing ==
  Crashed => (gatewayProc = NoProc /\ lastGatewayError # NoError)

\* C9: from Crashed, no call of ensureGatewayRunning() is answered with
\* success without starting an attempt.
C9_RetryAfterCrash ==
  [][(Crashed /\ configured) =>
       \A o \in out' : ~(o.egr = "held" /\ o.er = "ok")]_vars

C11_NotConfiguredNoSpawn ==
  [][/\ nprocs' # nprocs => configured'
     /\ \A o \in out' :
          o.egr = "notconf" =>
            /\ ~configured'
            /\ nprocs' = nprocs
            /\ gatewayStarting' = gatewayStarting
            /\ lastGatewayError' = lastGatewayError
            /\ lastGatewayExit' = lastGatewayExit
            /\ gatewayProc' = IF o.kind = "start" THEN gatewayProc ELSE NoProc]_vars

\* A call returned not-configured on a system that had a backend before.
C11_Witness ==
  \E o \in out : o.egr = "notconf" /\ nprocs > 0 /\ ~configured

\* C12: a call waits in ensureGatewayRunning() only while an attempt is
\* pending, gatewayStarting is null exactly when no attempt is in progress,
\* and the readiness wait is not still in progress once its window has
\* ended.
C12_WaitEndsInWindow ==
  /\ (attempt.pc = "none") <=> (gatewayStarting = NoProc)
  /\ \A r \in Reqs : Awaiting(r) => gatewayStarting = reqs[r].att /\ reqs[r].att # NoProc
  /\ attempt.pc # "overdue"

\* C13: a request that reaches the catch-all handler while no config
\* artifact exists is answered at once, without a call of
\* ensureGatewayRunning() and without a change of the supervisor, and with
\* a redirect unless its path starts with /setup (fwd = "unconf"); while a
\* config artifact exists the handler calls ensureGatewayRunning() first.
C13_RedirectUntilConfigured ==
  [][/\ \A o \in out' :
          (o.kind = "proxy" /\ o.egr \notin {"spawn", "attach"}) =>
            IF configured
            THEN o.egr = "held"
            ELSE /\ o.egr = "none"
                 /\ o.fwd # "unconf" => o.resp = "redirect"
                 /\ o.resp \in {"redirect", "forwarded"}
                 /\ nprocs' = nprocs
                 /\ gatewayProc' = gatewayProc
                 /\ gatewayStarting' = gatewayStarting
     /\ \A r \in Reqs :
          (reqs[r].pc = "idle" /\ reqs'[r].kind = "proxy") =>
            (configured /\ reqs'[r].egr \in {"spawn", "attach"})]_vars

\* A request is redirected on a system that ran a backend before its reset.
C13_Witness ==
  /\ ~configured
  /\ lastOutcome = "ok"
  /\ \E o \in out : o.kind = "proxy" /\ o.resp = "redirect"

\* C14: a proxied request for which ensureGatewayRunning() failed is
\* answered 503 and not forwarded, and no proxied request is left waiting
\* for an attempt that has ended.
C14_FailureGives503 ==
  /\ \A o \in out :
       (o.kind = "proxy" /\ o.er = "fail") => (o.resp = "503" /\ o.fwd = "no")
  /\ \A r \in Reqs :
       (reqs[r].kind = "proxy" /\ Awaiting(r)) =>
         (gatewayStarting # NoProc /\ reqs[r].att = gatewayStarting)

\* Two proxied requests waited for the same attempt and both got 503.
C14_Witness ==
  /\ Crashed
  /\ \A r \in Reqs : reqs[r].pc = "idle"
  /\ Cardinality({o \in out : o.kind = "proxy" /\ o.er = "fail" /\ o.resp = "503"}) = 2

\* A response record of a request that was handed to the backend.
Forwarded(o) == o.resp \in {"forwarded", "piped"}

\* C15 as stated: a forwarded request carries the bearer token exactly when
\* it came with no Authorization header, and otherwise the header it came
\* with.
C15_BearerIffAbsent ==
  \A o \in out :
    Forwarded(o) =>
      /\ (o.sent = "bearer") <=> (o.auth = "absent")
      /\ o.auth # "absent" => o.sent = o.auth

\* C15 as amended: a forwarded request carries the bearer token exactly
\* when it came with no Authorization header or an empty one; a non-empty
\* Authorization header is forwarded as it came.
C15_BearerIffNoValue ==
  \A o \in out :
    Forwarded(o) =>
      /\ (o.sent = "bearer") <=> (o.auth \in {"absent", "empty"})
      /\ o.auth = "own" => o.sent = "own"

\* Two requests are forwarded in one step, one with a header of its own
\* and one with none.
C15_Witness ==
  /\ \E o \in out : Forwarded(o) /\ o.auth = "own" /\ o.sent = "own"
  /\ \E o \in out : Forwarded(o) /\ o.auth = "absent" /\ o.sent = "bearer"

\* C16: an upgrade is piped exactly when ensureGatewayRunning() was called
\* for it and returned success, and then with the Authorization header that
\* attachGatewayAuthHeader leaves; an upgrade that arrives while no config
\* artifact exists is destroyed at once and changes nothing.
C16_UpgradeFollowsEnsure ==
  [][\A o \in out' :
       o.kind = "upgrade" =>
         /\ o.resp \in {"piped", "destroyed"}
         /\ (o.resp = "piped") <=> (o.er = "ok")
         /\ o.resp = "piped" =>
              /\ o.egr \in {"held", "spawn", "attach"}
              /\ o.sent = attachGatewayAuthHeader(o.auth)
         /\ (o.egr \notin {"spawn", "attach"} /\ ~configured) =>
              /\ o.resp = "destroyed"
              /\ o.egr = "none"
              /\ nprocs' = nprocs
              /\ gatewayProc' = gatewayProc
              /\ gatewayStarting' = gatewayStarting]_vars

\* An upgrade without a header started the backend and was piped with the
\* bearer token once the attempt had succeeded.
C16_Witness ==
  \E o \in out :
    /\ o.kind = "upgrade" /\ o.resp = "piped"
    /\ o.egr = "spawn" /\ o.er = "ok"
    /\ o.auth = "absent" /\ o.sent = "bearer"

\* C17: a console command whose name ALLOWED_CONSOLE_COMMANDS does not have
\* is rejected and nothing else happens: every console handler that
\* reaches a gateway branch, whether it completes in the same step or
\* suspends, runs a command of the allowlist, and the step that answers
\* "Command not allowed" spawns no process and leaves gatewayProc,
\* gatewayStarting, the processes and every other handler as they were.
C17_RejectedBeforeAnything ==
  [][ /\ \A o \in out' :
           /\ o.kind \in {"start", "restart", "stop"} => o.cmd \in ALLOWED_CONSOLE_COMMANDS
           /\ o.kind = "console" =>
                /\ o.resp = "notallowed"
                /\ gatewayProc' = gatewayProc /\ gatewayStarting' = gatewayStarting
                /\ nprocs' = nprocs /\ proc' = proc
                /\ attempt' = attempt /\ sleepQ' = sleepQ /\ reqs' = reqs
      /\ \A r \in Reqs :
           (reqs[r].pc = "idle" /\ reqs'[r].kind \in {"start", "restart", "stop"})
             => reqs'[r].cmd \in ALLOWED_CONSOLE_COMMANDS ]_vars

\* A command is rejected while a start attempt is pending and another
\* handler waits for it.
C17_Witness ==
  /\ \E o \in out : o.kind = "console" /\ o.resp = "notallowed"
  /\ gatewayStarting # NoProc
  /\ \E r \in Reqs : Awaiting(r)

\* An identifier: one or more characters, each a letter, a digit, "-"
\* or "_".
Identifier(s) ==
  Len(s) > 0 /\ \A i \in 1..Len(s) : s[i] \in Letters \cup Digits \cup {"-", "_"}

ArgCommands ==
  { << "openclaw.logs.tail" >>, << "openclaw.config.get" >>,
    << "openclaw.devices.approve" >>, << "openclaw.plugins.enable" >> }

\* C18: whenever the console handler spawns a command for an operation
\* that takes the caller's argument (logs.tail, config.get,
\* devices.approve, plugins.enable), the argument on the command line
\* passed validation: the line count lies in 50..1000, and the text is an
\* identifier.
C18_ValidatedArgs ==
  (cev.spawned /\ cev.cmd \in ArgCommands) =>
    IF cev.cmd = << "openclaw.logs.tail" >>
    THEN cev.lines \in TailMin..TailMax /\ cev.param = << >>
    ELSE Identifier(cev.param)

\* text has, from position i on, the characters of start and then at
\* least ten characters of class.
ShapeAt(text, i, start, class) ==
  /\ i + Len(start) - 1 <= Len(text)
  /\ \A j \in 1..Len(start) : text[i + j - 1] = start[j]
  /\ \A j \in 1..MinRun :
       i + Len(start) + j - 1 <= Len(text) /\ text[i + Len(start) + j - 1] \in class

\* text has, from position i on, five digits or more, a colon, and at
\* least ten characters of a token.
BotShapeAt(text, i) ==
  \E d \in MinDigits..Len(text) :
    /\ i + d + MinRun <= Len(text)
    /\ \A j \in 0..(d - 1) : text[i + j] \in Digits
    /\ text[i + d] = ":"
    /\ \A j \in 1..MinRun : text[i + d + j] \in Letters \cup Digits \cup {"_", "-"}

\* text contains a token of one of the shapes sk-, gho_, xox?- or
\* bot token.
HasSecret(text) ==
  \E i \in 1..Len(text) :
    \/ ShapeAt(text, i, << "s", "k", "-" >>, Letters \cup Digits \cup {"_", "-"})
    \/ ShapeAt(text, i, << "g", "h", "o", "_" >>, Letters \cup Digits \cup {"_"})
    \/ \E c \in {"b", "a", "p", "r", "s"} :
         ShapeAt(text, i, << "x", "o", "x", c, "-" >>, Letters \cup Digits \cup {"-"})
    \/ BotShapeAt(text, i)

Contains(text, part) ==
  \E i \in 1..Len(text) :
    i + Len(part) - 1 <= Len(text) /\ SubSeq(text, i, i + Len(part) - 1) = part

\* C19: the output of every console response that carries the output of a
\* command is redactSecrets of what runCmd returned: it contains no token
\* of the shapes sk-, gho_, xox?- or bot token, and where the command's
\* output had one the response has the placeholder.
C19_OutputRedacted ==
  cev.code # NoCode =>
    /\ cev.output = redactSecrets(cev.raw)
    /\ ~HasSecret(cev.output)
    /\ HasSecret(cev.raw) => Contains(cev.output, Placeholder)

\* A command that succeeded wrote other text and then a gho_ token; the
\* response has the other text and the placeholder.
C19_Witness ==
  /\ cev.status = 200
  /\ ShapeAt(cev.raw, 2, << "g", "h", "o", "_" >>, Letters \cup Digits \cup {"_"})
  /\ cev.output = << cev.raw[1] >> \o Placeholder

\* C20: when the timeout of runCmd fires the caller receives code 124, and
\* from the step that delivers this result on the spawned process does
\* not exist any more.
C20_TimedOutProcessGone ==
  /\ run.timer = "fired" => run.result = TimedOut
  /\ cev.code = TimedOut => cev.status = 500
  /\ run.result = TimedOut => run.st # "alive"

\* C21: the text that runCmd returns to its caller is bounded: it is what
\* the command wrote, cut at the ceiling and followed by the truncation
\* marker when it is longer than the ceiling.
C21_OutputBounded ==
  cev.code # NoCode =>
    \/ Len(cev.raw) <= OutputCeiling
    \/ /\ Len(cev.raw) = OutputCeiling + Len(TruncationMarker)
       /\ cev.raw = capOutput(cev.raw)

\* C23: while the state directory or the workspace directory is not under
\* /data, an import request is answered 400 in the step that receives it
\* and has no other effect: no import handler is ever in progress, and the
\* answering step leaves the handle, the pending attempt, the processes,
\* the config artifact and every other handler as they were.
C23_ImportRejectedOutsideData ==
  [][ ~underData =>
        /\ \A r \in Reqs : reqs'[r].kind # "import"
        /\ \A o \in out' :
             o.kind = "import" =>
               /\ o.resp = "400"
               /\ gatewayProc' = gatewayProc /\ gatewayStarting' = gatewayStarting
               /\ proc' = proc /\ nprocs' = nprocs /\ attempt' = attempt
               /\ configured' = configured /\ sleepQ' = sleepQ /\ reqs' = reqs ]_vars

\* An import is rejected while the backend runs and is held.
C23_Witness ==
  /\ ~underData
  /\ \E o \in out : o.kind = "import" /\ o.resp = "400"
  /\ gatewayProc # NoProc /\ Alive(gatewayProc)

\* C24: while an import extracts the archive into /data no backend process
\* is running: the backend was stopped before, and no other request has
\* started one since.
C24_NoBackendDuringExtract ==
  \A r \in Reqs : reqs[r].pc = "extract" => \A p \in Procs : ~Alive(p)

\* C25: the config artifact is never written while a backend process is
\* running: in the step in which the raw-config handler writes the file
\* and goes on to the restart, no backend process is alive.
C25_ConfigWrittenWhileStopped ==
  [][ (\E r \in Reqs : reqs[r].pc = "idle" /\ reqs'[r].kind = "rawwrite")
        => \A p \in Procs : ~Alive(p) ]_vars

\* A path that starts at the root.
Absolute(p) == p # << >> /\ p[1] = "/"
\* A path that starts with a drive letter and a colon.
DrivePrefixed(p) == Len(p) >= 2 /\ p[1] \in PathLetters /\ p[2] = ":"
\* A path with a ".." between two separators or ends.
Traversal(p) ==
  \E i \in 1..(Len(p) - 1) :
    /\ p[i] = "." /\ p[i + 1] = "."
    /\ (i = 1 \/ p[i - 1] = "/")
    /\ (i + 1 = Len(p) \/ p[i + 2] = "/")

\* C22: during import every archive entry whose path is absolute, begins
\* with a drive-letter prefix or contains a ".." segment is rejected by
\* looksSafeTarPath, and no file is written outside /data.
C22_UnsafeEntriesRejected ==
  dev.kind = "extracted" =>
    /\ \A en \in dev.archive :
         (Absolute(en.path) \/ DrivePrefixed(en.path) \/ Traversal(en.path))
           => en \notin dev.passed
    /\ \A t \in dev.wrote : isUnderData(t)

\* C26: whenever the raw-config write or the import overwrites an existing
\* config artifact, a backup holding its previous content exists.
C26_BackupBeforeOverwrite ==
  [][ (fs.config # Absent /\ fs'.config # Absent /\ fs'.config # fs.config)
        => fs.config \in fs'.backups ]_vars

\* C27: with both directories under /data, importing the archive that
\* export made leaves the config artifact with the content it had when the
\* archive was made.
C27_ExportImportRoundTrip ==
  [][ ( /\ underData
        /\ job.pc = "extract" /\ dev'.kind = "extracted"
        /\ exported.made /\ exported.config # Absent
        /\ dev'.archive = exported.archive )
        => fs'.config = exported.config ]_vars

C29_TokenStable ==
  \A i \in 1..Len(tokens) :
    IF env.gatewayToken = << >> THEN tokens[i] = tokens[1]
    ELSE tokens[i] = env.gatewayToken

\* The header is Basic credentials whose password, the text after the first
\* colon, is pw.
Carries(pw, h) ==
  /\ Len(h) >= 3 /\ h[1] = "Basic" /\ h[2] = Blank /\ h[3] \in DOMAIN Base64
  /\ \E i \in 1..Len(Base64[h[3]]) :
       /\ Base64[h[3]][i] = ":"
       /\ \A k \in 1..(i - 1) : Base64[h[3]][k] # ":"
       /\ SubSeq(Base64[h[3]], i + 1, Len(Base64[h[3]])) = pw

\* C30: no administrative operation has an effect unless the request
\* carries Basic credentials whose password equals SETUP_PASSWORD, and with
\* SETUP_PASSWORD unset every such request is rejected.
C30_NoEffectWithoutPassword ==
  [][ /\ ( /\ dev'.kind \in {"entered", "refused"} \/ job.pc = "idle"
           /\ \/ fs' # fs \/ exported' # exported \/ job' # job
              \/ configured' # configured \/ dev'.kind = "entered" )
        => /\ env.setupPassword # Unset
           /\ Carries(env.setupPassword, dev'.header)
      /\ env.setupPassword = Unset
           => /\ dev'.kind = "refused" /\ dev'.status = "500"
              /\ UNCHANGED << fs, exported, job, configured >> ]_vars
C30_Witness ==
  /\ dev.kind = "entered" /\ dev.route = "config.raw.write" /\ dev.status = "200"
  /\ dev.header = << "Basic", Blank, "dTpwOnc=", Blank, "x" >>
  /\ fs.config = "v2" /\ "v1" \in fs.backups

\* C31: console gateway.stop with a backend held sends it SIGTERM and
\* sleeps; with none held it responds at once, changes nothing and signals
\* no process; when it completes gatewayProc is null in both cases.
C31_StopIdempotent ==
  [][ /\ \A r \in Reqs :
           (reqs[r].pc = "idle" /\ reqs'[r].kind = "stop" /\ reqs'[r].pc = "stopSleep")
             => /\ gatewayProc # NoProc
                /\ proc'[gatewayProc].sig
                /\ \A p \in Procs \ {gatewayProc} : proc'[p] = proc[p]
      /\ \A o \in out' : o.kind = "stop" =>
           /\ o.resp = "ok"
           /\ gatewayProc' = NoProc
           /\ sleepQ' = sleepQ =>
                /\ gatewayProc = NoProc
                /\ UNCHANGED << gatewayStarting, attempt, proc, nprocs, configured,
                                lastGatewayError, lastGatewayExit, reqs >> ]_vars
C31_Witness ==
  /\ \E o \in out : o.kind = "stop" /\ o.resp = "ok"
  /\ gatewayProc = NoProc
  /\ \E p \in Procs : Alive(p) /\ proc[p].sig

\* The supervisor is in Starting: the process of the pending attempt was
\* spawned and its readiness wait has neither succeeded nor failed.
Starting ==
  /\ attempt.pc \in {"waiting", "overdue"}
  /\ lastGatewayError.kind # "spawn error"

\* C32: gatewayStarting is non-null exactly when the supervisor is in
\* Starting.
C32_StartingIffPending == (gatewayStarting # NoProc) <=> Starting

\* C33: the timeout sends SIGTERM, and SIGKILL follows from the kill timer
\* only while the process has not closed; the promise of runCmd resolves
\* once, at the latest when the timer fires, with 124 for the timeout, 127
\* for the spawn error and the exit code for the close, whichever comes
\* first, and it is never left without a result.
C33_ResolvesOnceByTimeout ==
  [][ /\ (run.timer = "armed" /\ run'.timer = "fired")
           => /\ run.pc = "pending" /\ cev'.code = TimedOut
              /\ run'.killTimer = "armed"
              /\ run'.sigs = IF run.st = "alive" THEN << "SIGTERM" >> ELSE << >>
      /\ (run'.sigs # run.sigs /\ run'.sigs # << >> /\ run'.sigs # << "SIGTERM" >>)
           => /\ run.killTimer = "armed" /\ run.st = "alive"
              /\ run.sigs = << "SIGTERM" >> /\ run'.sigs = << "SIGTERM", "SIGKILL" >>
      /\ run'.pc = "pending" => run'.timer = "armed"
      /\ cev'.code # NoCode
           => /\ run.pc \in {"idle", "pending"} /\ run'.pc # "pending"
              /\ cev'.code = TimedOut <=> (run.timer = "armed" /\ run'.timer = "fired")
              /\ cev'.code = SpawnFailed <=> run.pc = "idle"
              /\ cev'.code \notin {TimedOut, SpawnFailed}
                   => /\ run.st = "exited" /\ run' = NoRun
                      /\ cev'.code = IF run.code = NullCode THEN 0 ELSE run.code
      /\ (run.pc = "pending" /\ run'.pc # "pending") => cev'.code # NoCode ]_vars
C33_Witness ==
  /\ run.result = TimedOut /\ run.pc = "done"
  /\ run.sigs = << "SIGTERM", "SIGKILL" >> /\ run.st = "exited"

\* C34: runDoctorBestEffort runs the doctor command only when its last run
\* is at least 5 minutes old, and the time of the last run is the time of
\* that invocation.
C34_DoctorOncePerWindow ==
  [][ /\ (attempt'.pc = "doctor" /\ attempt.pc # "doctor")
           => lastDoctorAt # "recent" /\ lastDoctorAt' = "recent"
      /\ (lastDoctorAt' = "recent" /\ lastDoctorAt # "recent")
           => attempt'.pc = "doctor" /\ attempt.pc # "doctor" ]_vars
C34_Witness ==
  /\ nprocs = 2 /\ attempt.pc = "none" /\ lastOutcome = "fail"
  /\ lastGatewayError = [kind |-> "start failure", proc |-> 2]
  /\ lastDoctorAt = "recent"

\* C35: the step in which an attempt spawns its process leaves
\* lastGatewayError null, or holding the error of that very spawn; the step
\* in which an attempt ends in failure leaves it holding the failure of
\* that attempt, and it keeps it until the next attempt.
C35_ErrorOfLatestAttempt ==
  [][ /\ nprocs' # nprocs
           => /\ nprocs' = nprocs + 1 /\ gatewayStarting' = nprocs'
              /\ lastGatewayError' =
                   IF proc'[nprocs'].st = "alive" THEN NoError
                   ELSE [kind |-> "spawn error", proc |-> nprocs']
      /\ (gatewayStarting # NoProc /\ gatewayStarting' = NoProc /\ lastOutcome' = "fail")
           => lastGatewayError' = [kind |-> "start failure", proc |-> gatewayStarting]
      /\ (gatewayStarting' = NoProc /\ lastOutcome' = "fail")
           => lastGatewayError' = [kind |-> "start failure", proc |-> nprocs'] ]_vars
C35_Witness ==
  /\ nprocs = 2 /\ gatewayStarting = 2 /\ Alive(2)
  /\ lastOutcome = "fail" /\ lastGatewayError = NoError

\* C36: the exit notification of a process that is not the held handle
\* leaves gatewayProc as it is.
C36_StaleExitKeepsHandle ==
  [][ \A p \in Procs :
        (proc[p].st = "exited" /\ proc'[p].st = "gone" /\ gatewayProc # p)
          => gatewayProc' = gatewayProc ]_vars

\* C37: every backend process that is alive and was never sent a
\* termination signal is the process held in gatewayProc.
C37_UnsignalledIsHeld ==
  \A p \in Procs : (Alive(p) /\ ~proc[p].sig) => gatewayProc = p

\* C38: when two overlapping restartGateway() calls complete successfully,
\* both on the one start attempt that was begun by them, gatewayProc
\* refers to the process that attempt spawned.
C38_OverlappingRestartsOneProcess ==
  [][\A r1, r2 \in Reqs :
       ( /\ r1 # r2
         /\ UsesRestart(reqs[r1].kind) /\ reqs[r1].pc = "await"
         /\ UsesRestart(reqs[r2].kind) /\ reqs[r2].pc = "await"
         /\ reqs[r1].egr = "spawn"
         /\ reqs'[r1] = Idle /\ reqs'[r2] = Idle
         /\ lastOutcome' = "ok" )
         => /\ reqs[r2].egr = "attach"
            /\ reqs[r2].att = reqs[r1].att
            /\ gatewayProc' = reqs[r1].att]_vars

\* C39: an import request on a configured system that stopped a held
\* backend process, one that has answered a readiness probe, and ends in
\* an error response (400 or 500 out of the body read or the extraction)
\* leaves a live backend process held when the response is sent.
C39_ImportErrorRestoresBackend ==
  [][\A r \in Reqs :
       ( /\ reqs[r].kind = "import" /\ reqs[r].pc \in {"body", "extract"}
         /\ reqs[r].h0 # NoProc /\ proc[reqs[r].h0].probed
         /\ configured
         /\ reqs'[r] = Idle
         /\ \E o \in out' : o.kind = "import" /\ o.resp \in {"400", "500"} )
         => gatewayProc' # NoProc /\ proc'[gatewayProc'].st = "alive"]_vars

====
